---- MODULE Spec2Model ----
(***************************************************************************)
(* Model of the health-risk-assessment backend:                            *)
(*   routers/risk_assessment.py  assess_risk, get_base_model, top_features *)
(*   routers/users.py            create_user                               *)
(*                                                                         *)
(* Numbers are fixed point: bmi in tenths (25.0 = 250), probabilities in   *)
(* 1/100000 (1.0 = 100000), risks in hundredths of a percent,              *)
(* contribution scores in tenths of a percent (100.0 = 1000).              *)
(***************************************************************************)
EXTENDS Integers, Sequences, FiniteSets, TLC

VARIABLES
    Users,          \* db.collection("Users"): national_id -> document
    Measurements,   \* Users/{id}/ClinicalIndicators/measurements
    HypRecords,     \* Users/{id}/ClinicalIndicators/Hypertension/Records
    BioRecords,     \* Users/{id}/ClinicalIndicators/bloodbiomarkers/Records
    MedRecords,     \* Users/{id}/medications
    Predictions,    \* Users/{id}/risk_predictions: document id -> document
    artifacts,      \* the joblib artifacts loaded at import time
    now,            \* the wall clock, in ticks of 1/TicksPerSecond seconds
    frame,          \* the locals of the assess_risk call on the event loop
    response,       \* what the last finished assess_risk call answered
    served,         \* national_id -> number of assess_risk calls answered 200
    budget,         \* assess_risk calls still to arrive
    threads,        \* the create_user calls running in the thread pool
    explain,        \* an isolated top_features invocation: input and output
    Notifications,  \* AdminNotifications/unregistered_doctors/Notifications
    updating        \* the locals of the update_user call on the event loop

vars == <<Users, Measurements, HypRecords, BioRecords, MedRecords, Predictions,
          artifacts, now, frame, response, served, budget, threads, explain, Notifications, updating>>

(***************************************************************************)
(* Bounds                                                                  *)
(***************************************************************************)
MaxRequests == 2
MaxNow == 2
TicksPerSecond == 2
MaxImportance == 2
MaxNames == 4
MaxValues == 4
NumThreads == 2
MaxClientRecords == 2

TopN == 3

Ids == {"p1", "p2"}

(***************************************************************************)
(* Field values of a stored document.  A dict is a record whose fields are *)
(* tagged values; an omitted key is the value Absent.                      *)
(***************************************************************************)
Absent == [t |-> "absent", v |-> 0]
Num(n) == [t |-> "num", v |-> n]
NumStr(n) == [t |-> "numstr", v |-> n]
Text == [t |-> "text", v |-> 0]

\* dict.get(key, default)
Get(x, default) == IF x.t = "absent" THEN default ELSE x

\* float(x): a number or a numeric string converts, anything else raises
PyFloat(x) ==
    IF x.t \in {"num", "numstr"} THEN [ok |-> TRUE, v |-> x.v]
    ELSE [ok |-> FALSE, v |-> 0]

\* int(x): a number or a numeric string converts, anything else raises
PyInt(x) ==
    IF x.t \in {"num", "numstr"} THEN [ok |-> TRUE, v |-> x.v]
    ELSE [ok |-> FALSE, v |-> 0]

\* x > 0 for a field value: ordering a str (or None) against an int raises
PyGtZero(x) ==
    IF x.t = "num" THEN [ok |-> TRUE, v |-> x.v > 0]
    ELSE [ok |-> FALSE, v |-> FALSE]

NoDoc == [exists |-> FALSE]
Doc(d) == [exists |-> TRUE, data |-> d]

EmptyHyp == [date |-> Absent, systolic |-> Absent, diastolic |-> Absent, pulse |-> Absent,
             bp_category |-> Absent, prediabetes_indicator |-> Absent,
             insulin_resistance |-> Absent, metabolic_syndrome |-> Absent]
EmptyBio == [date_added |-> Absent, results |-> <<>>]
EmptyMed == [start_date |-> Absent, bp_medication |-> Absent]
EmptyMeasurements == [bmi |-> Absent, weight |-> Absent]

\* A collection is the set of its documents; document ids are numbered in the
\* order of their names.
Rec(id, data) == [id |-> id, data |-> data]

\* the decimal digits of a natural number, as a string is spelled
RECURSIVE Digits(_)
Digits(n) == IF n < 10 THEN <<n>> ELSE Append(Digits(n \div 10), n % 10)

\* the order of two strings of digits, character by character
RECURSIVE LexBefore(_, _)
LexBefore(a, b) ==
    IF b = <<>> THEN FALSE
    ELSE IF a = <<>> THEN TRUE
    ELSE IF Head(a) # Head(b) THEN Head(a) < Head(b)
    ELSE LexBefore(Tail(a), Tail(b))

\* The store's order of two field values: every number before every string,
\* numbers by value, strings by their characters (a digit before a letter).
Before(x, y) ==
    IF x.t = "num" THEN (y.t # "num" \/ x.v < y.v)
    ELSE IF y.t = "num" THEN FALSE
    ELSE IF x.t = "numstr" THEN (y.t = "text" \/ LexBefore(Digits(x.v), Digits(y.v)))
    ELSE FALSE

\* order_by(field, DESCENDING).limit(1).stream(); next(docs, None); to_dict() or {}
\* The query returns only the documents that have the field, the greatest
\* value first and, among equal values, the greatest document id first.
Latest(coll, field, empty) ==
    LET found == {d \in coll : d.data[field].t # "absent"}
        After(d, e) == \/ Before(e.data[field], d.data[field])
                       \/ /\ ~Before(d.data[field], e.data[field])
                          /\ e.id < d.id
    IN  IF found = {} THEN empty
        ELSE (CHOOSE d \in found : \A e \in found \ {d} : After(d, e)).data

\* next((r.get("value") for r in results if r.get("test_name") == name), default)
FirstValue(results, name, default) ==
    LET hits == {i \in 1..Len(results) : results[i].test_name = name}
    IN  IF hits = {} THEN default
        ELSE results[CHOOSE i \in hits : \A j \in hits : i <= j].value

(***************************************************************************)
(* Step 6: derived BMI fields                                              *)
(***************************************************************************)
\* a variant of BmiCategory with closed upper boundaries
BmiCategoryClosed(bmi) ==
    IF bmi <= 185 THEN 0
    ELSE IF bmi <= 250 THEN 1
    ELSE IF bmi <= 300 THEN 2
    ELSE 3

BmiCategory(bmi) ==
    IF bmi < 185 THEN 0
    ELSE IF 185 <= bmi /\ bmi < 250 THEN 1
    ELSE IF 250 <= bmi /\ bmi < 300 THEN 2
    ELSE 3

IsObese(bmi) == IF bmi >= 300 THEN 1 ELSE 0

DefaultBmi == Num(250)

(***************************************************************************)
(* Step 7: the feature dictionary.  ok is FALSE when a conversion raises.  *)
(***************************************************************************)
FeatureNames == {"male", "BPMeds", "totChol", "sysBP", "diaBP", "heartRate", "glucose",
                 "age_group", "smoker_status", "is_obese", "bp_category", "bmi_category",
                 "male_smoker", "prediabetes_indicator", "insulin_resistance",
                 "metabolic_syndrome"}

\* a variant of Defaults with the pressure defaults exchanged
DefaultsExchanged ==
    [bp_medication |-> Num(0), Cholesterol |-> Num(180), systolic |-> Num(80),
     diastolic |-> Num(120), pulse |-> Num(72), Glucose |-> Num(100),
     age_group |-> Num(1), smoker_status |-> Num(0), bp_category |-> Num(0),
     prediabetes_indicator |-> Num(0), insulin_resistance |-> Num(0),
     metabolic_syndrome |-> Num(0)]

\* the second arguments of the .get() and next() calls of lines 71-85
Defaults ==
    [bp_medication |-> Num(0), Cholesterol |-> Num(180), systolic |-> Num(120),
     diastolic |-> Num(80), pulse |-> Num(72), Glucose |-> Num(100),
     age_group |-> Num(1), smoker_status |-> Num(0), bp_category |-> Num(0),
     prediabetes_indicator |-> Num(0), insulin_resistance |-> Num(0),
     metabolic_syndrome |-> Num(0)]

BuildFeatures(user, bmi, hypertension, biomarkers, medications) ==
    LET results == biomarkers.results
        D == Defaults
        BPMeds == PyInt(Get(medications.bp_medication, D.bp_medication))
        totChol == PyFloat(FirstValue(results, "Cholesterol", D.Cholesterol))
        sysBP == PyFloat(Get(hypertension.systolic, D.systolic))
        diaBP == PyFloat(Get(hypertension.diastolic, D.diastolic))
        heartRate == PyFloat(Get(hypertension.pulse, D.pulse))
        glucose == PyFloat(FirstValue(results, "Glucose", D.Glucose))
        age_group == PyInt(Get(user.age_group, D.age_group))
        smoker_status == PyInt(Get(user.smoker_status, D.smoker_status))
        bp_category == PyInt(Get(hypertension.bp_category, D.bp_category))
        smokes == IF user.gender = "male"
                  THEN PyGtZero(Get(user.smoker_status, D.smoker_status))
                  ELSE [ok |-> TRUE, v |-> FALSE]
        prediabetes == PyInt(Get(hypertension.prediabetes_indicator,
                                 D.prediabetes_indicator))
        insulin == PyInt(Get(hypertension.insulin_resistance, D.insulin_resistance))
        metabolic == PyInt(Get(hypertension.metabolic_syndrome, D.metabolic_syndrome))
    IN  [ok |-> /\ BPMeds.ok /\ totChol.ok /\ sysBP.ok /\ diaBP.ok /\ heartRate.ok
                /\ glucose.ok /\ age_group.ok /\ smoker_status.ok /\ bp_category.ok
                /\ smokes.ok /\ prediabetes.ok /\ insulin.ok /\ metabolic.ok,
         features |->
            [male |-> IF user.gender = "male" THEN 1 ELSE 0,
             BPMeds |-> BPMeds.v,
             totChol |-> totChol.v,
             sysBP |-> sysBP.v,
             diaBP |-> diaBP.v,
             heartRate |-> heartRate.v,
             glucose |-> glucose.v,
             age_group |-> age_group.v,
             smoker_status |-> smoker_status.v,
             is_obese |-> IsObese(bmi),
             bp_category |-> bp_category.v,
             bmi_category |-> BmiCategory(bmi),
             male_smoker |-> IF smokes.v THEN 1 ELSE 0,
             prediabetes_indicator |-> prediabetes.v,
             insulin_resistance |-> insulin.v,
             metabolic_syndrome |-> metabolic.v]]

(***************************************************************************)
(* Steps 8 and 9: the two model pipelines.  The fitted scaler, selector    *)
(* and classifier are artifacts; a pipeline is known here by its declared  *)
(* input columns, and its probability is any value of Probs.               *)
(***************************************************************************)
Probs == {0, 12345, 100000}

HypertensionPlaceholder == 50000

\* X = pd.DataFrame([features]); X[extra] = value
WithColumn(features, extra, value) ==
    [c \in FeatureNames \cup {extra} |-> IF c = extra THEN value ELSE features[c]]

\* X[scaler.feature_names_in_]: KeyError when a declared column is missing
Reindex(X, columns) ==
    IF columns \subseteq DOMAIN X
    THEN [ok |-> TRUE, X |-> [c \in columns |-> X[c]]]
    ELSE [ok |-> FALSE, X |-> X]

\* round(x, ndigits) of the float x = num / den, in units of the last kept
\* digit.  round() rounds the binary float, which lies just above, just below
\* or on a decimal tie, so at a tie either neighbour can be the result
\* (round(0.00005 * 100, 2) is 0.01, round(0.00015 * 100, 2) is 0.01).
PyRound(num, den) ==
    LET q == num \div den
        r == num % den
    IN  IF 2 * r < den THEN {q}
        ELSE IF 2 * r > den THEN {q + 1}
        ELSE {q, q + 1}

\* round(prob * 100, 2), in hundredths of a percent
RiskPercent(prob) == PyRound(prob, 10)

(***************************************************************************)
(* Step 10: get_base_model and top_features                                *)
(***************************************************************************)
Range(s) == {s[i] : i \in 1..Len(s)}

RECURSIVE SumSeq(_)
SumSeq(s) == IF s = <<>> THEN 0 ELSE Head(s) + SumSeq(Tail(s))

Abs(x) == IF x < 0 THEN -x ELSE x

Min(a, b) == IF a < b THEN a ELSE b

\* the sequences of k distinct indices of 1..n
Picks(n, k) ==
    {s \in [1..k -> 1..n] : \A i, j \in 1..k : i # j => s[i] # s[j]}

\* np.argsort(values)[::-1][:top_n]: the first top_n indices of an ordering by
\* descending value; the order among equal values is not fixed by the sort
ArgsortDescTop(values, top_n) ==
    LET k == Min(top_n, Len(values))
    IN  {s \in Picks(Len(values), k) :
            /\ \A i, j \in 1..k : i < j => values[s[i]] >= values[s[j]]
            /\ \A m \in 1..Len(values) :
                   m \notin Range(s) => \A i \in 1..k : values[m] <= values[s[i]]}

\* (v / max(sum, 1e-8)) * 100, rounded to one decimal: tenths of a percent
Contribution(v, sum) == IF sum = 0 THEN {0} ELSE PyRound(v * 1000, sum)

\* the score lists the rounding can produce for a list of values
RECURSIVE ScoreLists(_, _)
ScoreLists(values, total) ==
    IF values = <<>> THEN {<<>>}
    ELSE {<<c>> \o rest : c \in Contribution(Head(values), total),
                           rest \in ScoreLists(Tail(values), total)}

\* np.linspace(0.8, 0.2, top_n), scaled by 10 * (top_n - 1)
Linspace(top_n) ==
    IF top_n = 1 THEN <<8>>
    ELSE [j \in 1..top_n |-> 8 * (top_n - 1) - 6 * (j - 1)]

Raised == [ok |-> FALSE, list |-> <<>>]
Returned(l) == [ok |-> TRUE, list |-> l]

GetBaseModel(model) ==
    IF model.kind \in {"named", "list"}
    THEN IF model.subs = <<>> THEN [ok |-> FALSE, base |-> model.own]
         ELSE [ok |-> TRUE, base |-> model.subs[1]]
    ELSE [ok |-> TRUE, base |-> model.own]

\* the ranked lists for one choice of indices; raises when an index has no name
Ranked(values, indices, feature_names) ==
    LET top_values == [j \in 1..Len(indices) |-> values[indices[j]]]
        total == SumSeq(top_values)
    IN  IF \E j \in 1..Len(indices) : indices[j] > Len(feature_names) THEN {Raised}
        ELSE {Returned([j \in 1..Len(indices) |->
                  [feature_name |-> feature_names[indices[j]],
                   contribution_score |-> scores[j]]]) :
              scores \in ScoreLists(top_values, total)}

\* lines 137-144: np.random.choice(len(feature_names), top_n, replace=False)
\* raises when fewer than top_n names are available
Fallback(feature_names, top_n) ==
    IF Len(feature_names) < top_n THEN {Raised}
    ELSE LET scores == Linspace(top_n)
             total == SumSeq(scores)
         IN  {Returned([j \in 1..top_n |->
                  [feature_name |-> feature_names[indices[j]],
                   contribution_score |-> rounded[j]]]) :
              indices \in Picks(Len(feature_names), top_n),
              rounded \in ScoreLists(scores, total)}

\* The set of results top_features can produce: the try block returns a
\* ranked list, and every exception inside it leads to the fallback.
top_features(model, feature_names, top_n) ==
    LET got == GetBaseModel(model)
        base == got.base
        values == IF base.has_importances THEN base.values
                  ELSE [i \in 1..Len(base.values) |-> Abs(base.values[i])]
        tried == IF got.ok /\ (base.has_importances \/ base.has_coef)
                 THEN UNION {Ranked(values, ind, feature_names) :
                                ind \in ArgsortDescTop(values, top_n)}
                 ELSE {Raised}
    IN  {r \in tried : r.ok}
        \cup (IF \E r \in tried : ~r.ok THEN Fallback(feature_names, top_n) ELSE {})

(***************************************************************************)
(* Step 11: derived descriptive fields and the response object             *)
(***************************************************************************)
\* {..}.get(code, default)
Label(table, code, default) == IF code \in DOMAIN table THEN table[code] ELSE default

AgeGroupLabels == (0 :> "Young") @@ (1 :> "Middle-aged") @@ (2 :> "Older")
SmokerLabels == (0 :> "Non-smoker") @@ (1 :> "Light smoker") @@ (2 :> "Moderate smoker")
                @@ (3 :> "Heavy smoker")
BpLabels == (-1 :> "Low") @@ (0 :> "Normal") @@ (1 :> "Elevated") @@ (2 :> "Stage 1")
            @@ (3 :> "Stage 2")
BmiLabels == (0 :> "Underweight") @@ (1 :> "Normal") @@ (2 :> "Overweight") @@ (3 :> "Obese")

DerivedFeatures(features, bmi) ==
    [age_group |-> Label(AgeGroupLabels, features.age_group, "Middle-aged"),
     smoker_status |-> Label(SmokerLabels, features.smoker_status, "Non-smoker"),
     is_obese |-> features.is_obese # 0,
     bp_category |-> Label(BpLabels, features.bp_category, "Normal"),
     bmi_category |-> Label(BmiLabels, features.bmi_category, "Normal"),
     bmi |-> bmi,
     pulse_pressure |-> features.sysBP - features.diaBP,
     male_smoker |-> features.male_smoker # 0,
     prediabetes_indicator |-> features.prediabetes_indicator # 0,
     insulin_resistance |-> features.insulin_resistance # 0,
     metabolic_syndrome |-> features.metabolic_syndrome # 0]

\* the response objects the rounding of the two risks can produce
RiskPredictionOutput(f) ==
    {[diabetes_risk |-> dr,
      hypertension_risk |-> hr,
      derived_features |-> DerivedFeatures(f.features, f.bmi),
      input_values |-> f.features,
      top_diabetes_features |-> f.dia_top,
      top_hypertension_features |-> f.hyp_top] :
     dr \in RiskPercent(f.diabetes_prob), hr \in RiskPercent(f.hypertension_prob)}

(***************************************************************************)
(* Step 12: the stored prediction document and its id                      *)
(***************************************************************************)
\* timestamp.strftime("%Y%m%d_%H%M%S"): the instant truncated to the second
DocumentId(timestamp) == timestamp \div TicksPerSecond

PredictionDocument(result, timestamp) ==
    [result |-> result,
     timestamp |-> timestamp,
     display_time |-> timestamp \div (60 * TicksPerSecond),
     sortable_time |-> timestamp \div TicksPerSecond]

\* DocumentReference.set(): creates the document or replaces the one of that id
\* (a collection is the set of its documents, each with its id)
SetDocument(collection, id, document) ==
    {d \in collection : d.id # id} \cup {[id |-> id, doc |-> document]}

(***************************************************************************)
(* assess_risk, one action per numbered step of the handler.  The handler  *)
(* is a coroutine that never awaits, so one call at a time is in progress. *)
(***************************************************************************)
Nil == [nil |-> TRUE]
NoResponse == [status |-> 0, detail |-> "", body |-> Nil]

IdleFrame ==
    [pc |-> "idle", national_id |-> "", before |-> {}, user |-> Nil, measurements |-> Nil,
     hypertension |-> Nil, biomarkers |-> Nil, medications |-> Nil, bmi |-> -1,
     features |-> Nil, X_dia |-> Nil, diabetes_prob |-> -1, X_hyp |-> Nil,
     hypertension_prob |-> -1, dia_top |-> <<>>, hyp_top |-> <<>>, result |-> Nil,
     raised_at |-> ""]

IdleUpdate == [pc |-> "idle"]

store == <<Users, Measurements, HypRecords, BioRecords, MedRecords, artifacts>>

\* a variant of Propagate without the "except HTTPException: raise" clause
PropagateAsInternal(status) == 500

\* lines 185-186: an HTTPException leaves the handler as it was raised
Propagate(status) == status

\* raise HTTPException(status_code, detail) reaching the caller
HttpError(status, detail, at) ==
    /\ frame' = [frame EXCEPT !.pc = "done", !.raised_at = at]
    /\ response' = [status |-> Propagate(status), detail |-> detail, body |-> Nil]
    /\ UNCHANGED <<store, Predictions, now, served, budget, threads, explain, Notifications, updating>>

\* lines 187-188: any other exception becomes a 500
InternalError(at) ==
    /\ frame' = [frame EXCEPT !.pc = "done", !.raised_at = at]
    /\ response' = [status |-> 500, detail |-> "exception", body |-> Nil]
    /\ UNCHANGED <<store, Predictions, now, served, budget, threads, explain, Notifications, updating>>

Goto(pc) == [frame EXCEPT !.pc = pc]

\* lines 89-90: pipeline A's input
DiabetesInput(features) == WithColumn(features, "hypertension", HypertensionPlaceholder)

\* a variant of HypertensionInput that repeats pipeline A's placeholder
HypertensionInputPlaceholder(features, diabetes_prob) ==
    WithColumn(features, "diabetes", HypertensionPlaceholder)

\* lines 97-98: pipeline B's input
HypertensionInput(features, diabetes_prob) ==
    WithColumn(features, "diabetes", diabetes_prob)

\* the event loop runs one coroutine at a time: assess_risk or update_user
Arrive(id) ==
    /\ frame.pc \in {"idle", "done"}
    /\ updating.pc \in {"idle", "done"}
    /\ budget > 0
    /\ budget' = budget - 1
    /\ frame' = [IdleFrame EXCEPT !.pc = "fetch_user", !.national_id = id,
                                  !.before = Predictions[id]]
    /\ response' = NoResponse
    /\ UNCHANGED <<store, Predictions, now, served, threads, explain, Notifications, updating>>

\* lines 25-29: the profile read, which the store answers or fails
FetchUser ==
    /\ frame.pc = "fetch_user"
    /\ \E answered \in BOOLEAN :
         LET user_doc == Users[frame.national_id]
         IN  IF ~answered THEN InternalError("read")
             ELSE IF ~user_doc.exists
             THEN HttpError(404, "User not found", "fetch_user")
             ELSE /\ frame' = [Goto("fetch_measurements") EXCEPT !.user = user_doc.data]
                  /\ UNCHANGED <<store, Predictions, now, response, served, budget,
                                 threads, explain, Notifications, updating>>

\* lines 31-35: the snapshot read, which the store answers or fails
FetchMeasurements ==
    /\ frame.pc = "fetch_measurements"
    /\ \E answered \in BOOLEAN :
         LET measurements_doc == Measurements[frame.national_id]
         IN  IF ~answered THEN InternalError("read")
             ELSE IF ~measurements_doc.exists \/ measurements_doc.data = EmptyMeasurements
             THEN HttpError(404, "Missing measurements", "fetch_measurements")
             ELSE /\ frame' = [Goto("fetch_hypertension") EXCEPT
                                  !.measurements = measurements_doc.data]
                  /\ UNCHANGED <<store, Predictions, now, response, served, budget,
                                 threads, explain, Notifications, updating>>

\* lines 38-41: the latest hypertension record, read from the store as it is
\* now; the store answers the query or fails
FetchHypertension ==
    /\ frame.pc = "fetch_hypertension"
    /\ \E answered \in BOOLEAN :
         IF ~answered THEN InternalError("read")
         ELSE /\ frame' = [Goto("fetch_biomarkers") EXCEPT
                     !.hypertension = Latest(HypRecords[frame.national_id], "date", EmptyHyp)]
              /\ UNCHANGED <<store, Predictions, now, response, served, budget, threads,
                             explain, Notifications, updating>>

\* lines 44-47: the latest biomarker panel, a second read, answered or failed
FetchBiomarkers ==
    /\ frame.pc = "fetch_biomarkers"
    /\ \E answered \in BOOLEAN :
         IF ~answered THEN InternalError("read")
         ELSE /\ frame' = [Goto("fetch_medications") EXCEPT
                     !.biomarkers = Latest(BioRecords[frame.national_id], "date_added", EmptyBio)]
              /\ UNCHANGED <<store, Predictions, now, response, served, budget, threads,
                             explain, Notifications, updating>>

\* lines 50-53: the latest medication record, a third read, answered or failed
FetchMedications ==
    /\ frame.pc = "fetch_medications"
    /\ \E answered \in BOOLEAN :
         IF ~answered THEN InternalError("read")
         ELSE /\ frame' = [Goto("assemble") EXCEPT
                     !.medications = Latest(MedRecords[frame.national_id], "start_date", EmptyMed)]
              /\ UNCHANGED <<store, Predictions, now, response, served, budget, threads,
                             explain, Notifications, updating>>

Assemble ==
    /\ frame.pc = "assemble"
    /\ LET bmi == Get(frame.measurements.bmi, DefaultBmi)
       IN  IF bmi.t # "num" THEN InternalError("assemble")
           ELSE LET built == BuildFeatures(frame.user, bmi.v, frame.hypertension,
                                           frame.biomarkers, frame.medications)
                IN  IF ~built.ok THEN InternalError("assemble")
                    ELSE /\ frame' = [Goto("predict_dia") EXCEPT
                                         !.bmi = bmi.v, !.features = built.features]
                         /\ UNCHANGED <<store, Predictions, now, response, served,
                                        budget, threads, explain, Notifications, updating>>

PredictDiabetes ==
    /\ frame.pc = "predict_dia"
    /\ LET X == Reindex(DiabetesInput(frame.features), artifacts.scaler_diabetes)
       IN  IF ~X.ok THEN InternalError("predict_dia")
           ELSE \E p \in Probs :
                    /\ frame' = [Goto("predict_hyp") EXCEPT
                                    !.X_dia = X.X, !.diabetes_prob = p]
                    /\ UNCHANGED <<store, Predictions, now, response, served,
                                   budget, threads, explain, Notifications, updating>>

PredictHypertension ==
    /\ frame.pc = "predict_hyp"
    /\ LET X == Reindex(HypertensionInput(frame.features, frame.diabetes_prob),
                        artifacts.scaler_hypertension)
       IN  IF ~X.ok THEN InternalError("predict_hyp")
           ELSE \E p \in Probs :
                    /\ frame' = [Goto("explain") EXCEPT
                                    !.X_hyp = X.X, !.hypertension_prob = p]
                    /\ UNCHANGED <<store, Predictions, now, response, served,
                                   budget, threads, explain, Notifications, updating>>

Explain ==
    /\ frame.pc = "explain"
    /\ \E d \in top_features(artifacts.model_diabetes,
                             artifacts.selected_features_dia, TopN) :
         IF ~d.ok THEN InternalError("explain")
         ELSE \E h \in top_features(artifacts.model_hypertension,
                                    artifacts.selected_features_hyp, TopN) :
                IF ~h.ok THEN InternalError("explain")
                ELSE \E result \in RiskPredictionOutput(
                                        [frame EXCEPT !.dia_top = d.list,
                                                      !.hyp_top = h.list]) :
                     /\ frame' = [Goto("save") EXCEPT
                                     !.dia_top = d.list, !.hyp_top = h.list,
                                     !.result = result]
                     /\ UNCHANGED <<store, Predictions, now, response, served,
                                    budget, threads, explain, Notifications, updating>>

\* the write either stores the document or raises (the store is unreachable)
Save ==
    /\ frame.pc = "save"
    /\ \E stored \in BOOLEAN :
         IF ~stored THEN InternalError("save")
         ELSE /\ Predictions' = [Predictions EXCEPT ![frame.national_id] =
                     SetDocument(@, DocumentId(now),
                                 PredictionDocument(frame.result, now))]
              /\ frame' = Goto("done")
              /\ response' = [status |-> 200, detail |-> "", body |-> frame.result]
              /\ served' = [served EXCEPT ![frame.national_id] = @ + 1]
              /\ UNCHANGED <<store, now, budget, threads, explain, Notifications, updating>>

\* the wall clock advances between, and during, calls
Tick ==
    /\ now < MaxNow
    /\ now' = now + 1
    /\ UNCHANGED <<store, Predictions, frame, response, served, budget, threads, explain, Notifications, updating>>

(***************************************************************************)
(* The records a store can hold at the start                               *)
(***************************************************************************)
Profile(gender, age_group, smoker_status) ==
    [gender |-> gender, age_group |-> age_group, smoker_status |-> smoker_status,
     full_name |-> "", age |-> 0, doctoremail |-> ""]

Profiles ==
    {NoDoc,
     Doc(Profile("male", Num(2), Num(2))),
     Doc(Profile("female", Absent, Absent)),
     Doc(Profile("male", Absent, Absent)),
     Doc(Profile("female", Num(0), NumStr(1))),
     Doc(Profile("male", Num(1), NumStr(1))),
     Doc(Profile("male", Text, Num(1)))}

BmiValues == {184, 185, 249, 250, 299, 300, 320}

MeasurementDocs ==
    {NoDoc, Doc(EmptyMeasurements),
     Doc([bmi |-> Absent, weight |-> Num(70)]),
     Doc([bmi |-> Text, weight |-> Absent])}
    \cup {Doc([bmi |-> Num(b), weight |-> Absent]) : b \in BmiValues}

HypOld == [EmptyHyp EXCEPT !.date = Num(1), !.systolic = Num(130), !.diastolic = Num(85),
                           !.pulse = Num(70), !.bp_category = Num(1),
                           !.metabolic_syndrome = Num(1)]
HypNew == [EmptyHyp EXCEPT !.date = Num(2), !.systolic = Num(150), !.diastolic = Num(95),
                           !.pulse = Num(80), !.bp_category = Num(2)]
HypStrings == [EmptyHyp EXCEPT !.date = Num(1), !.systolic = NumStr(140),
                               !.prediabetes_indicator = Num(1)]
HypMalformed == [EmptyHyp EXCEPT !.date = Num(1), !.systolic = Text, !.diastolic = Num(90)]

\* a record stored without its date, which the query by date does not return
HypUndated == [EmptyHyp EXCEPT !.systolic = Num(150), !.diastolic = Num(95)]
\* a record dated as HypOld
HypSameDay == [EmptyHyp EXCEPT !.date = Num(1), !.systolic = Num(162), !.diastolic = Num(99)]
\* a record whose date was stored as a string
HypStringDate == [EmptyHyp EXCEPT !.date = NumStr(1), !.systolic = Num(111)]

HypCollections ==
    {{},
     {Rec(0, HypOld), Rec(1, HypNew)},
     {Rec(0, HypStrings)},
     {Rec(0, HypMalformed)},
     {Rec(0, HypUndated)},
     {Rec(0, HypOld), Rec(1, HypSameDay)},
     {Rec(0, HypNew), Rec(1, HypStringDate)}}

Panel(date_added, results) == [date_added |-> Num(date_added), results |-> results]
Test(test_name, value) == [test_name |-> test_name, value |-> value]

BioCollections ==
    {{},
     {Rec(0, Panel(1, <<Test("Cholesterol", Num(200)), Test("Glucose", Num(90))>>)),
      Rec(1, Panel(2, <<Test("Cholesterol", Num(220)), Test("Glucose", Num(130))>>))},
     {Rec(0, Panel(1, <<Test("HbA1c", Num(6)), Test("Glucose", Text)>>))}}

Medication(start_date, bp_medication) ==
    [start_date |-> Num(start_date), bp_medication |-> bp_medication]

MedCollections ==
    {{},
     {Rec(1, Medication(1, Num(0))), Rec(0, Medication(2, Num(1)))},
     {Rec(0, Medication(1, Text))}}

(***************************************************************************)
(* The artifacts a deployment can load                                     *)
(***************************************************************************)
Base(has_importances, has_coef, values) ==
    [has_importances |-> has_importances, has_coef |-> has_coef, values |-> values]
NoSignal == Base(FALSE, FALSE, <<>>)
Model(kind, subs, own) == [kind |-> kind, subs |-> subs, own |-> own]

SchemaDia == FeatureNames \cup {"hypertension"}
SchemaHyp == FeatureNames \cup {"diabetes"}

Names4 == <<"glucose", "sysBP", "age_group", "bmi_category">>
Names3 == <<"glucose", "sysBP", "BPMeds">>
Names2 == <<"glucose", "sysBP">>

Bundle(sd, sh, md, mh, fd, fh) ==
    [scaler_diabetes |-> sd, scaler_hypertension |-> sh,
     model_diabetes |-> md, model_hypertension |-> mh,
     selected_features_dia |-> fd, selected_features_hyp |-> fh]

Voting == Model("named", <<Base(TRUE, FALSE, <<2, 0, 1, 1>>), NoSignal>>, NoSignal)
Linear == Model("plain", <<>>, Base(FALSE, TRUE, <<-2, 1, 0>>))
Opaque == Model("plain", <<>>, NoSignal)
Bagging == Model("list", <<NoSignal, Base(TRUE, FALSE, <<1, 1, 1>>)>>, NoSignal)

FittedBundle == Bundle(SchemaDia, SchemaHyp, Voting, Linear, Names4, Names3)

Bundles ==
    {FittedBundle,
     Bundle(SchemaDia, SchemaHyp, Linear, Opaque, Names3, Names3),
     Bundle(SchemaDia, SchemaHyp, Bagging, Voting, Names2, Names4),
     Bundle(SchemaDia \cup {"BMI"}, SchemaHyp, Voting, Linear, Names4, Names3),
     Bundle(SchemaDia, SchemaHyp \cup {"BMI"}, Voting, Linear, Names4, Names3)}

(***************************************************************************)
(* Spec: one assess_risk call against every store and bundle above         *)
(***************************************************************************)
EarlierPrediction == [id |-> -1, doc |-> PredictionDocument(Nil, -TicksPerSecond)]

IdleThreads == [t \in 1..NumThreads |-> [pc |-> "idle"]]
NoExplain == [pc |-> "off"]

Init ==
    /\ \E u \in Profiles : Users = [i \in Ids |-> IF i = "p1" THEN u ELSE NoDoc]
    /\ \E m \in MeasurementDocs :
           Measurements = [i \in Ids |-> IF i = "p1" THEN m ELSE NoDoc]
    /\ \E h \in HypCollections : HypRecords = [i \in Ids |-> IF i = "p1" THEN h ELSE {}]
    /\ \E b \in BioCollections : BioRecords = [i \in Ids |-> IF i = "p1" THEN b ELSE {}]
    /\ \E m \in MedCollections : MedRecords = [i \in Ids |-> IF i = "p1" THEN m ELSE {}]
    /\ Predictions = [i \in Ids |-> {EarlierPrediction}]
    /\ artifacts \in Bundles
    /\ now = 0
    /\ frame = IdleFrame
    /\ response = NoResponse
    /\ served = [i \in Ids |-> 0]
    /\ budget = 1
    /\ threads = IdleThreads
    /\ explain = NoExplain
    /\ Notifications = {}
    /\ updating = IdleUpdate

Handler ==
    \/ FetchUser
    \/ FetchMeasurements
    \/ FetchHypertension
    \/ FetchBiomarkers
    \/ FetchMedications
    \/ Assemble
    \/ PredictDiabetes
    \/ PredictHypertension
    \/ Explain
    \/ Save

Next ==
    \/ \E id \in Ids : Arrive(id)
    \/ Handler

Spec == Init /\ [][Next]_vars

(***************************************************************************)
(* SpecHistory: successive assess_risk calls while the clock runs, against *)
(* a store holding two complete subjects                                   *)
(***************************************************************************)
InitHistory ==
    /\ Users = [i \in Ids |-> IF i = "p1" THEN Doc(Profile("male", Num(2), Num(2)))
                              ELSE Doc(Profile("female", Absent, Absent))]
    /\ Measurements = [i \in Ids |-> IF i = "p1" THEN Doc([bmi |-> Num(320), weight |-> Absent])
                                     ELSE Doc([bmi |-> Absent, weight |-> Num(70)])]
    /\ HypRecords = [i \in Ids |-> IF i = "p1" THEN {Rec(0, HypOld), Rec(1, HypNew)}
                                   ELSE {}]
    /\ BioRecords = [i \in Ids |-> {}]
    /\ MedRecords = [i \in Ids |-> {}]
    /\ Predictions = [i \in Ids |-> {}]
    /\ artifacts = FittedBundle
    /\ now = 0
    /\ frame = IdleFrame
    /\ response = NoResponse
    /\ served = [i \in Ids |-> 0]
    /\ budget = MaxRequests
    /\ threads = IdleThreads
    /\ explain = NoExplain
    /\ Notifications = {}
    /\ updating = IdleUpdate

NextHistory ==
    \/ \E id \in Ids : Arrive(id)
    \/ Handler
    \/ Tick

SpecHistory == InitHistory /\ [][NextHistory]_vars

(***************************************************************************)
(* SpecClients: one assess_risk call while other clients of the store add  *)
(* records between its reads                                               *)
(***************************************************************************)
\* the records another client of the store adds while the service runs
ClientHypertension == Rec(9, [EmptyHyp EXCEPT !.date = Num(3), !.systolic = Num(170),
                                              !.diastolic = Num(99)])
ClientMedication == Rec(9, Medication(3, Num(1)))

\* the number of records other clients have added
ClientRecords ==
    Cardinality({id \in Ids : ClientHypertension \in HypRecords[id]})
    + Cardinality({id \in Ids : ClientMedication \in MedRecords[id]})

\* another client stores a hypertension record of the subject
StoreHypertension(id) ==
    /\ ClientRecords < MaxClientRecords
    /\ ClientHypertension \notin HypRecords[id]
    /\ HypRecords' = [HypRecords EXCEPT ![id] = @ \cup {ClientHypertension}]
    /\ UNCHANGED <<Users, Measurements, BioRecords, MedRecords, artifacts, Predictions, now,
                   frame, response, served, budget, threads, explain, Notifications,
                   updating>>

\* another client stores a medication record of the subject
StoreMedication(id) ==
    /\ ClientRecords < MaxClientRecords
    /\ ClientMedication \notin MedRecords[id]
    /\ MedRecords' = [MedRecords EXCEPT ![id] = @ \cup {ClientMedication}]
    /\ UNCHANGED <<Users, Measurements, HypRecords, BioRecords, artifacts, Predictions, now,
                   frame, response, served, budget, threads, explain, Notifications,
                   updating>>

InitClients ==
    /\ Users = [i \in Ids |-> IF i = "p1" THEN Doc(Profile("male", Num(2), Num(2)))
                              ELSE Doc(Profile("female", Absent, Absent))]
    /\ Measurements = [i \in Ids |-> IF i = "p1" THEN Doc([bmi |-> Num(320), weight |-> Absent])
                                     ELSE Doc([bmi |-> Absent, weight |-> Num(70)])]
    /\ HypRecords = [i \in Ids |-> IF i = "p1" THEN {Rec(0, HypOld), Rec(1, HypNew)}
                                   ELSE {}]
    /\ BioRecords = [i \in Ids |-> {}]
    /\ MedRecords = [i \in Ids |-> {}]
    /\ Predictions = [i \in Ids |-> {}]
    /\ artifacts = FittedBundle
    /\ now = 0
    /\ frame = IdleFrame
    /\ response = NoResponse
    /\ served = [i \in Ids |-> 0]
    /\ budget = 1
    /\ threads = IdleThreads
    /\ explain = NoExplain
    /\ Notifications = {}
    /\ updating = IdleUpdate

NextClients ==
    \/ \E id \in Ids : Arrive(id)
    \/ Handler
    \/ \E id \in Ids : StoreHypertension(id)
    \/ \E id \in Ids : StoreMedication(id)

SpecClients == InitClients /\ [][NextClients]_vars

(***************************************************************************)
(* SpecExplain: top_features on its own, over classifier shapes            *)
(***************************************************************************)
AllNames == <<"glucose", "sysBP", "age_group", "bmi_category", "BPMeds", "totChol">>
NameLists == {SubSeq(AllNames, 1, k) : k \in 1..MaxNames}

ImportanceVectors == UNION {[1..l -> 0..MaxImportance] : l \in 1..MaxValues}
CoefValues == {-2, 0, 1}
CoefVectors == UNION {[1..l -> CoefValues] : l \in 1..MaxValues}

ExplainModels ==
    {Model("named", <<Base(TRUE, FALSE, v), NoSignal>>, NoSignal) : v \in ImportanceVectors}
    \cup {Model("plain", <<>>, Base(TRUE, FALSE, v)) : v \in ImportanceVectors}
    \cup {Model("list", <<Base(FALSE, TRUE, v), NoSignal>>, NoSignal) : v \in CoefVectors}
    \cup {Model("plain", <<>>, Base(FALSE, TRUE, v)) : v \in CoefVectors}
    \cup {Opaque, Bagging, Model("named", <<>>, Base(TRUE, FALSE, <<2, 1, 1>>))}

QuietStore ==
    /\ Users = [i \in Ids |-> NoDoc]
    /\ Measurements = [i \in Ids |-> NoDoc]
    /\ HypRecords = [i \in Ids |-> {}]
    /\ BioRecords = [i \in Ids |-> {}]
    /\ MedRecords = [i \in Ids |-> {}]
    /\ Predictions = [i \in Ids |-> {}]
    /\ artifacts = FittedBundle
    /\ now = 0
    /\ frame = IdleFrame
    /\ response = NoResponse
    /\ served = [i \in Ids |-> 0]
    /\ budget = 0
    /\ Notifications = {}
    /\ updating = IdleUpdate

InitExplain ==
    /\ QuietStore
    /\ threads = IdleThreads
    /\ \E m \in ExplainModels, n \in NameLists :
           explain = [pc |-> "call", model |-> m, feature_names |-> n, out |-> <<>>]

CallTopFeatures ==
    /\ explain.pc = "call"
    /\ \E r \in top_features(explain.model, explain.feature_names, TopN) :
           explain' = [explain EXCEPT !.pc = IF r.ok THEN "returned" ELSE "raised",
                                      !.out = r.list]
    /\ UNCHANGED <<store, Predictions, now, frame, response, served, budget, threads,
                   Notifications, updating>>

NextExplain == CallTopFeatures

SpecExplain == InitExplain /\ [][NextExplain]_vars

(***************************************************************************)
(* SpecUsers: create_user calls running in the thread pool, and            *)
(* update_user calls on the event loop                                     *)
(***************************************************************************)
BirthDates == {"1990-05-01", "2999-01-01", "bogus"}
DoctorEmails == {"", "dr@clinic", "dr@nowhere"}
Doctors == {"dr@clinic"}

\* models.schema.calculate_age: the age in years, or an exception
calculate_age(date_of_birth) ==
    IF date_of_birth = "1990-05-01" THEN [ok |-> TRUE, age |-> 36]
    ELSE IF date_of_birth = "2999-01-01" THEN [ok |-> TRUE, age |-> -973]
    ELSE [ok |-> FALSE, age |-> 0]

UserCreate(national_id, full_name, date_of_birth, doctoremail) ==
    [national_id |-> national_id, full_name |-> full_name,
     date_of_birth |-> date_of_birth, doctoremail |-> doctoremail]

\* {**user.dict(), "age": age, "date_of_birth": str(user.date_of_birth)}
UserData(user, age) ==
    [national_id |-> user.national_id, full_name |-> user.full_name,
     date_of_birth |-> user.date_of_birth, doctoremail |-> user.doctoremail, age |-> age]

ThreadNames == [t \in 1..NumThreads |-> t]

InitUsers ==
    /\ QuietStore
    /\ explain = NoExplain
    /\ threads = [t \in 1..NumThreads |->
                     [pc |-> "idle", user |-> Nil, age |-> 0, status |-> 0, detail |-> "",
                      stored |-> FALSE]]

others == <<Measurements, HypRecords, BioRecords, MedRecords, Predictions, artifacts, now,
            frame, response, served, budget, explain>>

Reject(t, detail) ==
    [threads EXCEPT ![t].pc = "done", ![t].status = 400, ![t].detail = detail]

\* an exception create_user does not handle: the caller gets a 500
Fail(t) ==
    [threads EXCEPT ![t].pc = "done", ![t].status = 500, ![t].detail = "exception"]

\* a request reaches create_user
Call(t, user) ==
    /\ threads[t].pc = "idle"
    /\ threads' = [threads EXCEPT ![t].pc = "check", ![t].user = user]
    /\ UNCHANGED <<Users, Notifications, updating, others>>

\* lines 16-26: the existence check, which the store answers or fails, then the age
CheckExists(t) ==
    /\ threads[t].pc = "check"
    /\ \E answered \in BOOLEAN :
         LET user == threads[t].user
             got == calculate_age(user.date_of_birth)
         IN  threads' =
               IF ~answered THEN Fail(t)
               ELSE IF Users[user.national_id].exists THEN Reject(t, "User already exists")
               ELSE IF ~got.ok \/ got.age < 0 \/ got.age > 130
                    THEN Reject(t, "Invalid birthdate format. Use YYYY-MM-DD.")
                    ELSE [threads EXCEPT ![t].pc = "set", ![t].age = got.age]
    /\ UNCHANGED <<Users, Notifications, updating, others>>

\* lines 28-32: user_ref.set(user_data) stores the profile or raises
StoreUser(t) ==
    /\ threads[t].pc = "set"
    /\ \E written \in BOOLEAN :
         LET user == threads[t].user
         IN  IF ~written
             THEN /\ threads' = Fail(t)
                  /\ UNCHANGED Users
             ELSE /\ Users' = [Users EXCEPT ![user.national_id] =
                                  Doc(UserData(user, threads[t].age))]
                  /\ threads' = [threads EXCEPT
                         ![t].stored = TRUE,
                         ![t].pc = IF user.doctoremail # "" THEN "doctor" ELSE "return"]
    /\ UNCHANGED <<Notifications, updating, others>>

\* lines 33-36: the Doctors query, which the store answers or fails
FindDoctor(t) ==
    /\ threads[t].pc = "doctor"
    /\ \E answered \in BOOLEAN :
         threads' = IF ~answered THEN Fail(t)
                    ELSE [threads EXCEPT ![t].pc =
                             IF threads[t].user.doctoremail \in Doctors THEN "return"
                             ELSE "notify"]
    /\ UNCHANGED <<Users, Notifications, updating, others>>

\* lines 37-44: the alert document, set() under the id {doctoremail}_{national_id}
Notify(t) ==
    /\ threads[t].pc = "notify"
    /\ \E written \in BOOLEAN :
         LET user == threads[t].user
         IN  IF ~written
             THEN /\ threads' = Fail(t)
                  /\ UNCHANGED Notifications
             ELSE /\ Notifications' =
                        Notifications \cup {<<user.doctoremail, user.national_id>>}
                  /\ threads' = [threads EXCEPT ![t].pc = "return"]
    /\ UNCHANGED <<Users, updating, others>>

\* lines 46-47
Return(t) ==
    /\ threads[t].pc = "return"
    /\ threads' = [threads EXCEPT ![t].pc = "done", ![t].status = 200]
    /\ UNCHANGED <<Users, Notifications, updating, others>>

(***************************************************************************)
(* update_user, a coroutine on the event loop                              *)
(***************************************************************************)
\* updated_user.dict(exclude_unset=True): the keys the request sets
UserUpdate(keys, full_name, date) == [keys |-> keys, full_name |-> full_name, date |-> date]

UpdateRequests ==
    {UserUpdate({"full_name"}, 0, ""),
     UserUpdate({"birthdate"}, 0, "1990-05-01"),
     UserUpdate({"full_name", "date_of_birth"}, 0, "1990-05-01"),
     UserUpdate({"date_of_birth"}, 0, "2999-01-01"),
     UserUpdate({"date_of_birth"}, 0, "bogus")}

\* lines 58-59: a birthdate key is renamed unless date_of_birth is set too
RenameBirthdate(keys) ==
    IF "birthdate" \in keys /\ "date_of_birth" \notin keys
    THEN (keys \ {"birthdate"}) \cup {"date_of_birth"}
    ELSE keys

\* lines 63-65: strptime and (today - birth_date).days // 365, or an exception
AgeInYears(date) ==
    IF date = "1990-05-01" THEN [ok |-> TRUE, age |-> 36]
    ELSE IF date = "2999-01-01" THEN [ok |-> TRUE, age |-> -973]
    ELSE [ok |-> FALSE, age |-> 0]

\* DocumentReference.update(): the named fields of the document are replaced
UpdateDocument(data, updates) ==
    [data EXCEPT
        !.full_name = IF "full_name" \in updates.keys THEN updates.full_name ELSE @,
        !.date_of_birth = IF "date_of_birth" \in updates.keys THEN updates.date ELSE @,
        !.age = IF "age" \in updates.keys THEN updates.age ELSE @]

Answer(status, detail) ==
    [updating EXCEPT !.pc = "done", !.status = status, !.detail = detail]

\* a request reaches update_user when the event loop is free
CallUpdate(id, updated_user) ==
    /\ updating.pc \in {"idle", "done"}
    /\ frame.pc \in {"idle", "done"}
    /\ updating' = [pc |-> "check", national_id |-> id, updated_user |-> updated_user,
                    updates |-> Nil, status |-> 0, detail |-> ""]
    /\ UNCHANGED <<Users, Notifications, threads, others>>

\* lines 52-71: the existence check, which the store answers or fails, then
\* the updates with the age
PrepareUpdate ==
    /\ updating.pc = "check"
    /\ \E answered \in BOOLEAN :
         LET request == updating.updated_user
             keys == RenameBirthdate(request.keys)
             got == AgeInYears(request.date)
         IN  updating' =
               IF ~answered THEN Answer(500, "exception")
               ELSE IF ~Users[updating.national_id].exists
                    THEN Answer(404, "User not found")
               ELSE IF "date_of_birth" \notin keys
                    THEN [updating EXCEPT !.pc = "update",
                             !.updates = [keys |-> keys, full_name |-> request.full_name,
                                          date |-> "", age |-> 0]]
               ELSE IF ~got.ok \/ got.age < 0 \/ got.age > 130
                    THEN Answer(400, "Invalid birthdate format. Use YYYY-MM-DD.")
                    ELSE [updating EXCEPT !.pc = "update",
                             !.updates = [keys |-> keys \cup {"age"},
                                          full_name |-> request.full_name,
                                          date |-> request.date, age |-> got.age]]
    /\ UNCHANGED <<Users, Notifications, threads, others>>

\* lines 73-75: user_ref.update(updates) changes the profile or raises
ApplyUpdate ==
    /\ updating.pc = "update"
    /\ \E written \in BOOLEAN :
         LET id == updating.national_id
         IN  IF ~written \/ ~Users[id].exists
             THEN /\ updating' = Answer(500, "exception")
                  /\ UNCHANGED Users
             ELSE /\ Users' = [Users EXCEPT ![id] =
                                  Doc(UpdateDocument(Users[id].data, updating.updates))]
                  /\ updating' = Answer(200, "User updated successfully")
    /\ UNCHANGED <<Notifications, threads, others>>

NextUsers ==
    \/ \E t \in 1..NumThreads :
        \/ \E id \in Ids, d \in BirthDates, e \in DoctorEmails :
               Call(t, UserCreate(id, ThreadNames[t], d, e))
        \/ CheckExists(t)
        \/ StoreUser(t)
        \/ FindDoctor(t)
        \/ Notify(t)
        \/ Return(t)
    \/ \E id \in Ids, u \in UpdateRequests : CallUpdate(id, u)
    \/ PrepareUpdate
    \/ ApplyUpdate

SpecUsers == InitUsers /\ [][NextUsers]_vars

(***************************************************************************)
(* Properties                                                              *)
(***************************************************************************)
subject == frame.national_id
Answered == frame.pc = "done"

MissingMandatory(id) ==
    ~Users[id].exists \/ ~Measurements[id].exists

\* the call ended because the store failed to answer one of its reads
ReadFailed == Answered /\ frame.raised_at = "read"

\* C1 as stated: when the subject's profile document or measurement snapshot
\* does not exist, assess_risk ends with 404 and the subject's
\* risk_predictions collection is what it was before the call.
C1_AlwaysNotFound ==
    (frame.pc # "idle" /\ MissingMandatory(subject)) =>
        /\ Predictions[subject] = frame.before
        /\ Answered => response.status = 404

\* C1, amended: when the subject's profile document or measurement snapshot
\* does not exist, the subject's risk_predictions collection is, during and
\* after the call, what it was before the call, and assess_risk ends with
\* 404 unless the store failed to answer a read, when it ends with 500.
C1_NotFoundWritesNothing ==
    (frame.pc # "idle" /\ MissingMandatory(subject)) =>
        /\ Predictions[subject] = frame.before
        /\ Answered => response.status = IF ReadFailed THEN 500 ELSE 404

\* the call was answered for a subject with a profile and no measurement snapshot
C1_Witness ==
    /\ Answered
    /\ Users[subject].exists
    /\ ~Measurements[subject].exists
    /\ response.status = 404
    /\ frame.before # {}

\* C2: once both risk scores and both explanations are computed, the call
\* returns the Prediction Result whether or not the write succeeds.
C2_WriteFailureNeverMasksResult ==
    (Answered /\ frame.result # Nil) =>
        /\ response.status = 200
        /\ response.body = frame.result

ScoreSum(l) == SumSeq([j \in 1..Len(l) |-> l[j].contribution_score])

\* C3: every top_features invocation returns exactly top_n entries whose
\* contribution scores are non-negative and sum to 100.0 within 0.1.
C3_ExplainerShape ==
    explain.pc \in {"returned", "raised"} =>
        /\ explain.pc = "returned"
        /\ Len(explain.out) = TopN
        /\ \A j \in 1..Len(explain.out) : explain.out[j].contribution_score >= 0
        /\ Abs(ScoreSum(explain.out) - 1000) <= 1

\* C4: an Explainer failure never suppresses the risk scores: once both
\* probabilities are computed and the write does not fail, the call returns
\* the two risk scores.
C4_ExplainerNeverSuppressesScores ==
    (Answered /\ frame.hypertension_prob >= 0 /\ frame.raised_at # "save") =>
        /\ response.status = 200
        /\ response.body.diabetes_risk \in RiskPercent(frame.diabetes_prob)
        /\ response.body.hypertension_risk \in RiskPercent(frame.hypertension_prob)

Plain(x) == x.t \in {"absent", "num"}

\* a profile and a measurement snapshot with well-formed fields, and no
\* hypertension record, biomarker panel or medication record
OnlyMandatoryRecords(id) ==
    /\ Users[id].exists
    /\ Measurements[id].exists
    /\ Measurements[id].data # EmptyMeasurements
    /\ Plain(Measurements[id].data.bmi)
    /\ Plain(Users[id].data.age_group)
    /\ Plain(Users[id].data.smoker_status)
    /\ HypRecords[id] = {}
    /\ BioRecords[id] = {}
    /\ MedRecords[id] = {}

\* C5: for a subject with a profile and a measurement snapshot and no other
\* record, feature assembly does not raise: once the reads are answered it
\* produces the Feature Vector, which has all 16 features with every
\* documented default.
C5_DefaultsWithoutSubRecords ==
    (frame.pc # "idle" /\ OnlyMandatoryRecords(subject)) =>
        /\ frame.raised_at # "assemble"
        /\ (frame.medications # Nil /\ frame.pc # "assemble") => frame.features # Nil
        /\ frame.features # Nil =>
            /\ DOMAIN frame.features = FeatureNames
            /\ Cardinality(DOMAIN frame.features) = 16
            /\ frame.features.BPMeds = 0
            /\ frame.features.totChol = 180
            /\ frame.features.sysBP = 120
            /\ frame.features.diaBP = 80
            /\ frame.features.heartRate = 72
            /\ frame.features.glucose = 100
            /\ frame.features.bp_category = 0
            /\ frame.features.prediabetes_indicator = 0
            /\ frame.features.insulin_resistance = 0
            /\ frame.features.metabolic_syndrome = 0
            /\ Users[subject].data.age_group = Absent => frame.features.age_group = 1
            /\ Users[subject].data.smoker_status = Absent
                   => frame.features.smoker_status = 0

\* the features were assembled for such a subject whose profile omits both codes
C5_Witness ==
    /\ frame.pc # "idle"
    /\ OnlyMandatoryRecords(subject)
    /\ frame.features # Nil
    /\ Users[subject].data.age_group = Absent
    /\ Users[subject].data.smoker_status = Absent

\* C6: the prediction history is append-only: the number of stored prediction
\* records of a subject equals the number of its successful assessments.
C6_AppendOnlyHistory ==
    \A id \in Ids : Cardinality(Predictions[id]) = served[id]

\* C7: pipeline A runs on the Feature Vector plus hypertension = 0.5;
\* pipeline B runs only after A produced diabetes_probability, on the same
\* Feature Vector plus diabetes = that probability.
C7_ChainedInference ==
    /\ frame.X_dia # Nil =>
        /\ frame.diabetes_prob \in Probs
        /\ frame.X_dia["hypertension"] = HypertensionPlaceholder
        /\ \A c \in FeatureNames : frame.X_dia[c] = frame.features[c]
    /\ frame.X_hyp # Nil =>
        /\ frame.X_dia # Nil
        /\ frame.X_hyp["diabetes"] = frame.diabetes_prob
        /\ \A c \in FeatureNames : frame.X_hyp[c] = frame.features[c]
    /\ frame.hypertension_prob >= 0 => frame.X_hyp # Nil

\* pipeline B has run on a diabetes probability other than the placeholder
C7_Witness ==
    /\ frame.X_hyp # Nil
    /\ frame.hypertension_prob >= 0
    /\ frame.diabetes_prob = 12345

IsText(x) == x.t = "text"

\* the handler has read a non-numeric value in a numeric field
ReadsMalformed ==
    /\ frame.medications # Nil
    /\ \/ IsText(frame.user.age_group)
       \/ IsText(frame.user.smoker_status)
       \/ IsText(frame.measurements.bmi)
       \/ IsText(frame.hypertension.systolic)
       \/ IsText(frame.hypertension.diastolic)
       \/ IsText(frame.hypertension.pulse)
       \/ IsText(frame.hypertension.bp_category)
       \/ IsText(frame.medications.bp_medication)
       \/ \E i \in 1..Len(frame.biomarkers.results) :
              /\ frame.biomarkers.results[i].test_name \in {"Cholesterol", "Glucose"}
              /\ IsText(frame.biomarkers.results[i].value)

\* C8: a non-numeric value in a numeric source field makes assess_risk fail
\* with a ValidationError (400), never another outcome.
C8_MalformedIsValidationError ==
    (Answered /\ ReadsMalformed) => response.status = 400

\* C9: bmi < 18.5 -> 0, 18.5 <= bmi < 25 -> 1, 25 <= bmi < 30 -> 2,
\* bmi >= 30 -> 3; is_obese = 1 exactly when the category is 3; a snapshot
\* without a bmi field counts as bmi = 25.0.
C9_BmiPartition ==
    frame.features # Nil =>
        LET bmi == frame.bmi
            cat == frame.features.bmi_category
        IN  /\ cat \in 0..3
            /\ bmi < 185 <=> cat = 0
            /\ (185 <= bmi /\ bmi < 250) <=> cat = 1
            /\ (250 <= bmi /\ bmi < 300) <=> cat = 2
            /\ bmi >= 300 <=> cat = 3
            /\ frame.features.is_obese = 1 <=> cat = 3
            /\ frame.features.is_obese \in {0, 1}
            /\ frame.measurements.bmi = Absent => bmi = 250 /\ cat = 2
            /\ frame.measurements.bmi # Absent => bmi = frame.measurements.bmi.v

\* the features were assembled from a snapshot with bmi = 30.0
C9_Witness ==
    /\ frame.features # Nil
    /\ frame.bmi = 300
    /\ frame.features.bmi_category = 3

\* C10: for each national_id at most one create_user call stores its profile,
\* however the calls interleave; every other call leaves the profile as it is.
C10_CreateNeverOverwrites ==
    \A id \in Ids :
        Cardinality({t \in 1..NumThreads :
                        /\ threads[t].stored
                        /\ threads[t].user.national_id = id}) <= 1

====
